---- MODULE Spec2Model ----
(***************************************************************************)
(* PMDtools (pmdtools.py): the record loop of main(), the reconstruction   *)
(* of the read/reference alignment from CIGAR and MD, the strand           *)
(* normalisation, the filters, the PMD scoring loop with quality           *)
(* rescaling, and the output stage.                                        *)
(*                                                                         *)
(* A Python string is a sequence of one-character strings.  Coordinates    *)
(* keep Python's 0-based values; s[x] of the code is s[x+1] here.          *)
(*                                                                         *)
(* The interpreter is Python 3 (the shebang, print(..., file=stderr)): a   *)
(* name that is bound nowhere (prin, xrange) raises NameError when the     *)
(* statement that uses it is executed, and an uncaught exception ends the  *)
(* run.  The loop header of line 248 is taken as delivering the records of *)
(* standard input one by one, which is what the body is written for.       *)
(***************************************************************************)
EXTENDS Integers, Sequences, FiniteSets, TLC

\* ------------------------------------------------------------------ bounds
MaxLines == 2        \* records on standard input in one run
MaxReadLen == 3      \* longest read of the reconstruction universe
MaxOptions == 2      \* most options given on one command line
MaxArrayLen == 2     \* longest arrays of the normalisation universe

\* ----------------------------------------------------------- program constants
MaxReadsDefault == 1000000000  \* 10**20 of line 37: above every stream length
ThresholdDefault == -20000
UpperThresholdDefault == 1000000
ThresholdOn == -10000          \* line 631: options.threshold > (-10000)
UpperThresholdOn == 1000000    \* line 631: options.upperthreshold < (1000000)
MinQualLen == 2                \* line 270: len(quals) < 2
ReverseBit == 16               \* line 304: int(flag) & 16

\* ------------------------------------------------------------- characters
DigitChars == <<"0", "1", "2", "3", "4", "5", "6", "7", "8", "9">>
UpperChars == {"A", "B", "C", "D", "E", "F", "G", "H", "I", "J", "K", "L", "M",
               "N", "O", "P", "Q", "R", "S", "T", "U", "V", "W", "X", "Y", "Z"}

IsDigit(c) == \E d \in 1..10 : DigitChars[d] = c
DigitVal(c) == (CHOOSE d \in 1..10 : DigitChars[d] = c) - 1
IsAlpha(c) == c \in UpperChars

\* str.isdigit(), str.isalpha(): every character, and at least one
AllDigits(e) == Len(e) > 0 /\ \A k \in 1..Len(e) : IsDigit(e[k])
AllAlpha(e) == Len(e) > 0 /\ \A k \in 1..Len(e) : IsAlpha(e[k])

\* ch in s
In(ch, s) == \E k \in 1..Len(s) : s[k] = ch

Min(a, b) == IF a < b THEN a ELSE b
Max(a, b) == IF a > b THEN a ELSE b

\* int(e) of a digit string
RECURSIVE ToInt(_)
ToInt(e) ==
    IF e = <<>> THEN 0
    ELSE 10 * ToInt(SubSeq(e, 1, Len(e) - 1)) + DigitVal(e[Len(e)])

\* s[a:b] with Python's clipping, 0 <= a
Slice(s, a, b) == SubSeq(s, a + 1, Min(b, Len(s)))

\* s[::-1]
Reversed(s) == [k \in 1..Len(s) |-> s[Len(s) + 1 - k]]

\* '.' * n
Dots(n) == [k \in 1..n |-> "."]

\* e.lstrip('^')
RECURSIVE Lstrip(_, _)
Lstrip(e, ch) ==
    IF e # <<>> /\ e[1] = ch THEN Lstrip(Tail(e), ch) ELSE e

\* range(a, b) as a list
Range(a, b) == [k \in 1..Max(b - a, 0) |-> a + k - 1]

\* ---------------------------------------------------------------- revcomp
\* a complement without the branches of lines 162-163 for N and the gap
RevcompBaseACGT(inbase) ==
    CASE inbase = "A" -> <<"T">>
      [] inbase = "T" -> <<"A">>
      [] inbase = "G" -> <<"C">>
      [] inbase = "C" -> <<"G">>
      [] OTHER -> <<>>

RevcompBase(inbase) ==
    CASE inbase = "A" -> <<"T">>
      [] inbase = "T" -> <<"A">>
      [] inbase = "G" -> <<"C">>
      [] inbase = "C" -> <<"G">>
      [] inbase = "N" -> <<"N">>
      [] inbase = "-" -> <<"-">>
      [] OTHER -> <<>>

RECURSIVE RevcompFrom(_, _)
RevcompFrom(inseq, k) ==
    IF k > Len(inseq) THEN <<>>
    ELSE RevcompBase(inseq[k]) \o RevcompFrom(inseq, k + 1)

revcomp(inseq) == RevcompFrom(Reversed(inseq), 1)

\* -------------------------------------------------------------- MD decode
\* re.findall('(\d+|\D+)', MD): the maximal runs of digits and of non-digits
RECURSIVE RunEnd(_, _, _)
RunEnd(s, k, d) ==
    IF k > Len(s) \/ IsDigit(s[k]) # d THEN k - 1 ELSE RunEnd(s, k + 1, d)

RECURSIVE MDfindall(_)
MDfindall(s) ==
    IF s = <<>> THEN <<>>
    ELSE LET n == RunEnd(s, 1, IsDigit(s[1]))
         IN  <<SubSeq(s, 1, n)>> \o MDfindall(SubSeq(s, n + 1, Len(s)))

MDstart == [alignment |-> <<>>, ref_seq |-> <<>>, newread |-> <<>>,
            MDcounter |-> 0, error |-> "none"]

(* A decode that takes the observed base, and not the base that MD states,   *)
(* as the reference base of a substituted coordinate.                         *)
MDtokenObservedBase(st, e, read) ==
    IF st.error # "none" THEN st
    ELSE IF AllDigits(e) THEN
        LET n == ToInt(e)
        IN  [st EXCEPT !.alignment = @ \o Dots(n),
                       !.ref_seq = @ \o Slice(read, st.MDcounter, st.MDcounter + n),
                       !.newread = @ \o Slice(read, st.MDcounter, st.MDcounter + n),
                       !.MDcounter = @ + n]
    ELSE IF In("^", e) THEN
        [st EXCEPT !.alignment = @ \o Lstrip(e, "^")]
    ELSE IF AllAlpha(e) THEN
        IF st.MDcounter >= Len(read)
        THEN [st EXCEPT !.alignment = @ \o e, !.ref_seq = @ \o e,
                        !.error = "IndexError"]
        ELSE [st EXCEPT !.alignment = @ \o e,
                        !.ref_seq = Append(@, read[st.MDcounter + 1]),
                        !.newread = Append(@, read[st.MDcounter + 1]),
                        !.MDcounter = @ + Len(e)]
    ELSE st

\* one pass of the loop of lines 345-361 over the token e
MDtoken(st, e, read) ==
    IF st.error # "none" THEN st
    ELSE IF AllDigits(e) THEN
        LET n == ToInt(e)
        IN  [st EXCEPT !.alignment = @ \o Dots(n),
                       !.ref_seq = @ \o Slice(read, st.MDcounter, st.MDcounter + n),
                       !.newread = @ \o Slice(read, st.MDcounter, st.MDcounter + n),
                       !.MDcounter = @ + n]
    ELSE IF In("^", e) THEN
        [st EXCEPT !.alignment = @ \o Lstrip(e, "^")]
    ELSE IF AllAlpha(e) THEN
        IF st.MDcounter >= Len(read)
        THEN [st EXCEPT !.alignment = @ \o e, !.ref_seq = @ \o e,
                        !.error = "IndexError"]
        ELSE [st EXCEPT !.alignment = @ \o e,
                        !.ref_seq = @ \o e,
                        !.newread = Append(@, read[st.MDcounter + 1]),
                        !.MDcounter = @ + Len(e)]
    ELSE st

RECURSIVE MDloop(_, _, _, _)
MDloop(st, MDlist, k, read) ==
    IF k > Len(MDlist) THEN st
    ELSE MDloop(MDtoken(st, MDlist[k], read), MDlist, k + 1, read)

MDdecode(MD, read) == MDloop(MDstart, MDfindall(MD), 1, read)

\* ----------------------------------------------------------- CIGAR decode
\* cigarparser.findall(cigar), cigarparser = "([0-9]*)([A-Z])": every capital
\* letter with the digits that stand right before it
RECURSIVE CigarFindall(_, _, _)
CigarFindall(s, k, digs) ==
    IF k > Len(s) THEN <<>>
    ELSE IF IsDigit(s[k]) THEN CigarFindall(s, k + 1, Append(digs, s[k]))
    ELSE IF IsAlpha(s[k]) THEN <<<<digs, s[k]>>>> \o CigarFindall(s, k + 1, <<>>)
    ELSE CigarFindall(s, k + 1, <<>>)

cigarparser(cigar) == CigarFindall(cigar, 1, <<>>)

CigarStart == [insertions |-> <<>>, softclips |-> <<>>, cigarcount |-> 0,
               error |-> "none"]

\* one pass of the loop of lines 373-379 over the component p
CigarComponent(st, p) ==
    IF st.error # "none" THEN st
    ELSE IF p[1] = <<>> THEN [st EXCEPT !.error = "ValueError"]
    ELSE LET cigaraddition == ToInt(p[1])
             cs == Range(st.cigarcount, st.cigarcount + cigaraddition)
         IN  [st EXCEPT
                !.insertions = IF p[2] = "I" THEN @ \o cs ELSE @,
                !.softclips = IF p[2] # "I" /\ p[2] = "S" THEN @ \o cs ELSE @,
                !.cigarcount = @ + ToInt(p[1])]

RECURSIVE CigarLoop(_, _, _)
CigarLoop(st, cigarcomponents, k) ==
    IF k > Len(cigarcomponents) THEN st
    ELSE CigarLoop(CigarComponent(st, cigarcomponents[k]), cigarcomponents, k + 1)

CigarDecode(cigar) == CigarLoop(CigarStart, cigarparser(cigar), 1)

\* ------------------------------------------------------------- qualities
(* A quality character is <<"q", Q>> with Q = ord(c) - 33 when it comes from  *)
(* the input.  A rescaled character is kept as the expression the code        *)
(* computes it from: <<"adj", position, c>> is                                *)
(* chr(int(prob2phred(Newbaseq(position, ancient_model_deam, ..c..))) + 33),  *)
(* <<"adjall", i, z, c>> the character of lines 483-486.                      *)
Phred(c) == c[2]

Newbaseq(fposition, fquals) == <<"adj", fposition, fquals[fposition + 1]>>

NewqualAll(i, z, quals) == <<"adjall", i, z, quals[i + 1]>>

\* a replacement that lands one position further on, the last one excepted
SetQualNext(quals, i, newqual) ==
    IF i + 1 < Len(quals)
    THEN Slice(quals, 0, i + 1) \o <<newqual>> \o Slice(quals, i + 2, Len(quals))
    ELSE Slice(quals, 0, i) \o <<newqual>>

\* quals[0:i] + newqual + quals[(i+1):]
SetQual(quals, i, newqual) ==
    Slice(quals, 0, i) \o <<newqual>> \o Slice(quals, i + 1, Len(quals))

(* A likelihood is the list of its factors, 1.0 being the empty list: the     *)
(* factor <<kind, model, position, c>> is L_match or L_mismatch of that        *)
(* position under that damage model for the quality character c.              *)
L_match(fposition, fmodel, fquals) ==
    <<"match", fmodel, fposition, fquals[fposition + 1]>>

L_mismatch(fposition, fmodel, fquals) ==
    <<"mismatch", fmodel, fposition, fquals[fposition + 1]>>

(* math.log(L_D/L_M) in whole units: a C>T or G>A mismatch raises the ratio   *)
(* (the ancient model explains it), a match lowers it, and the empty          *)
(* products give log(1.0/1.0) = 0 exactly.                                    *)
FactorWeight(f) == IF f[1] = "mismatch" THEN 3 ELSE -1

RECURSIVE SumWeights(_, _)
SumWeights(L, k) ==
    IF k > Len(L) THEN 0 ELSE FactorWeight(L[k]) + SumWeights(L, k + 1)

LogRatio(LD, LM) == SumWeights(LD, 1)

\* dict[thekey] += 1, or = 1 for a new key
Bump(dict, thekey) ==
    [k \in DOMAIN dict \cup {thekey} |->
        IF k = thekey
        THEN (IF thekey \in DOMAIN dict THEN dict[thekey] + 1 ELSE 1)
        ELSE dict[k]]

\* ------------------------------------------------------------------ state
VARIABLES
    options,            \* the parsed command line (parse_args)
    input,              \* which set of records standard input draws from
    remaining,          \* records standard input still holds at most
    pc,                 \* the place of main() in its record loop
    error,              \* the uncaught exception that ended the run, or "none"
    line_counter,
    log,                \* history: how the iteration of each record ended
    col, line, read, quals, reverse, DSfield, LR,
    alignment, ref_seq, newread, MDcounter,
    insertions, softclips, cigarcount,
    real_read, real_ref_seq, mismatch_string,
    L_D, L_M,
    L_bound,            \* whether L_D and L_M have been assigned in this run
    L_line,             \* history: the line_counter of the record they are of
    adjusted,           \* history: the <<i, newqual>> computed for this record
    mismatch_dict, mismatch_dict_rev,
    noquals, indelexcluded, clipexcluded, noMD, excluded_threshold, passed,
    out, err            \* what was printed on stdout and on stderr

env == <<options, input>>
ctl == <<pc, error, line_counter, remaining, log>>
rec == <<col, line, read, quals, reverse, DSfield, LR>>
rcn == <<alignment, ref_seq, newread, MDcounter, insertions, softclips, cigarcount>>
nrm == <<real_read, real_ref_seq, mismatch_string>>
lik == <<L_D, L_M, L_bound, L_line>>
acc == <<mismatch_dict, mismatch_dict_rev>>
cnt == <<noquals, indelexcluded, clipexcluded, noMD, excluded_threshold, passed>>
io == <<out, err>>
vars == <<env, ctl, rec, rcn, nrm, lik, adjusted, acc, cnt, io>>

\* ---------------------------------------------------------------- options
Defaults ==
    [maxreads |-> MaxReadsDefault, chromosome |-> "", mapq |-> 0, baseq |-> 0,
     deamination |-> FALSE, cpg |-> FALSE,
     noclips |-> FALSE, noindels |-> FALSE, onlyclips |-> FALSE,
     onlydeletions |-> FALSE, onlyinsertions |-> FALSE, nodeletions |-> FALSE,
     noinsertions |-> FALSE, notreverse |-> FALSE,
     printDS |-> FALSE, printalignments |-> FALSE,
     threshold |-> ThresholdDefault, upperthreshold |-> UpperThresholdDefault,
     perc_identity |-> 0, adjustbaseq |-> FALSE, adjustbaseq_all |-> FALSE,
     dry |-> FALSE, writesamfield |-> FALSE, basic |-> 0, stats |-> FALSE]

\* the values an option is given on the command lines of the model;
\* perc_identity is in percent (90 is --perc_identity 0.9)
Settings ==
    {<<"maxreads", 1>>, <<"chromosome", "chr1">>, <<"mapq", 30>>, <<"baseq", 20>>,
     <<"deamination", TRUE>>, <<"cpg", TRUE>>,
     <<"noclips", TRUE>>, <<"noindels", TRUE>>, <<"onlyclips", TRUE>>,
     <<"onlydeletions", TRUE>>, <<"onlyinsertions", TRUE>>, <<"nodeletions", TRUE>>,
     <<"noinsertions", TRUE>>, <<"notreverse", TRUE>>,
     <<"printDS", TRUE>>, <<"printalignments", TRUE>>,
     <<"threshold", 0>>, <<"upperthreshold", 0>>, <<"upperthreshold", 3>>,
     <<"perc_identity", 90>>, <<"adjustbaseq", TRUE>>, <<"adjustbaseq_all", TRUE>>,
     <<"dry", TRUE>>, <<"writesamfield", TRUE>>, <<"basic", 1>>, <<"stats", TRUE>>}

\* the command lines that give at most n options
RECURSIVE CommandLines(_)
CommandLines(n) ==
    IF n = 0 THEN {Defaults}
    ELSE LET fewer == CommandLines(n - 1)
         IN  fewer \cup {[o EXCEPT ![s[1]] = s[2]] : o \in fewer, s \in Settings}

\* lines 631 and 639
ThresholdGiven ==
    options.threshold > ThresholdOn \/ options.upperthreshold < UpperThresholdOn

\* line 328; options.perc_identity > 0.01 is more than one percent
ReconstructCond(DSf) ==
    \/ DSf = FALSE
    \/ options.writesamfield
    \/ options.basic > 0
    \/ options.perc_identity > 1
    \/ options.printalignments
    \/ options.adjustbaseq
    \/ options.adjustbaseq_all
    \/ options.deamination
    \/ options.dry

\* line 431
IdentityCond == options.perc_identity > 1 \/ options.printalignments

\* line 468
ScoreCond(DSf) ==
    \/ DSf = FALSE
    \/ (DSf = TRUE /\ options.writesamfield = TRUE)
    \/ options.basic > 0
    \/ options.adjustbaseq
    \/ options.adjustbaseq_all
    \/ options.deamination
    \/ options.dry

\* ------------------------------------------------------------------ input
(* A record of standard input, as line 255 splits it: col[2], col[1], col[4], *)
(* col[5], col[9], col[10], and the MD:Z: and DS:Z: tags among col[11:].      *)
(* The flag is the decimal form (flag.isdigit() of line 303).                 *)
SamLine(chrom, flag, mapq, cigar, seq, Qs, hasMD, md, hasDS, ds) ==
    [chrom |-> chrom, flag |-> flag, mapq |-> mapq, cigar |-> cigar, seq |-> seq,
     qual |-> [k \in 1..Len(Qs) |-> <<"q", Qs[k]>>],
     hasMD |-> hasMD, md |-> md, hasDS |-> hasDS, ds |-> ds]

NoLine == SamLine("", 0, 0, <<>>, <<>>, <<>>, FALSE, <<>>, FALSE, 0)

\* str(n)
RECURSIVE ToStr(_)
ToStr(n) ==
    IF n < 10 THEN <<DigitChars[n + 1]>>
    ELSE ToStr(n \div 10) \o <<DigitChars[(n % 10) + 1]>>

(* The reconstruction universe: what an aligner writes for an alignment.  An  *)
(* alignment is a list of columns <<op, read base, reference base>>; its      *)
(* record has the read bases as col[9], the run-length encoding of the ops as *)
(* CIGAR and the SAM encoding of the M and D columns as MD.                   *)
ReconBases == {"C", "T"}

Columns ==
    {<<"M", r, f>> : r \in ReconBases, f \in ReconBases}
    \cup {<<"I", r, "-">> : r \in ReconBases}
    \cup {<<"S", r, "-">> : r \in ReconBases}
    \cup {<<"D", "-", f>> : f \in ReconBases}

ValidAlignment(al) ==
    LET n == Len(al)
        inner == {k \in 1..n : al[k][1] # "S"}
    IN  /\ \A k \in 1..n : al[k][1] = "S" =>
              \/ \A j \in 1..k : al[j][1] = "S"
              \/ \A j \in k..n : al[j][1] = "S"
        /\ inner # {}
        /\ \A k \in inner : (\A j \in inner : k <= j) => al[k][1] = "M"
        /\ \A k \in inner : (\A j \in inner : k >= j) => al[k][1] = "M"
        /\ Cardinality({k \in 1..n : al[k][1] # "D"}) \in MinQualLen..MaxReadLen

Alignments ==
    UNION {{al \in [1..n -> Columns] : ValidAlignment(al)} : n \in 2..(MaxReadLen + 1)}

RECURSIVE SeqOf(_, _)
SeqOf(al, k) ==
    IF k > Len(al) THEN <<>>
    ELSE (IF al[k][1] = "D" THEN <<>> ELSE <<al[k][2]>>) \o SeqOf(al, k + 1)

\* the CIGAR of the columns from k on, n columns of op being open
RECURSIVE CigarOf(_, _, _, _)
CigarOf(al, k, op, n) ==
    IF k > Len(al) THEN ToStr(n) \o <<op>>
    ELSE IF al[k][1] = op THEN CigarOf(al, k + 1, op, n + 1)
    ELSE ToStr(n) \o <<op>> \o CigarOf(al, k + 1, al[k][1], 1)

\* the MD of the columns from k on, after n matches; indel: a deletion is open
RECURSIVE MDOf(_, _, _, _)
MDOf(al, k, n, indel) ==
    IF k > Len(al) THEN ToStr(n)
    ELSE IF al[k][1] = "M" /\ al[k][2] = al[k][3] THEN MDOf(al, k + 1, n + 1, FALSE)
    ELSE IF al[k][1] = "M" THEN ToStr(n) \o <<al[k][3]>> \o MDOf(al, k + 1, 0, FALSE)
    ELSE IF al[k][1] = "D" /\ indel THEN <<al[k][3]>> \o MDOf(al, k + 1, 0, TRUE)
    ELSE IF al[k][1] = "D" THEN ToStr(n) \o <<"^", al[k][3]>> \o MDOf(al, k + 1, 0, TRUE)
    ELSE MDOf(al, k + 1, n, indel)

RecordOf(al) ==
    LET seq == SeqOf(al, 1)
    IN  SamLine("chr1", 0, 37, CigarOf(al, 2, al[1][1], 1), seq,
                [k \in 1..Len(seq) |-> 40], TRUE, MDOf(al, 1, 0, FALSE), FALSE, 0)

ReconLines == {RecordOf(al) : al \in Alignments}

\* The stream universe: records that take the branches of the record loop.
StreamLines ==
    {SamLine("chr1", 0, 37, <<"2", "M">>, <<"T", "A">>, <<40, 40>>,
             TRUE, <<"0", "C", "1">>, FALSE, 0),
     SamLine("chr1", 0, 37, <<"2", "M">>, <<"A", "T">>, <<40, 40>>,
             TRUE, <<"2">>, FALSE, 0),
     SamLine("chr1", 0, 37, <<"2", "M">>, <<"C", "A">>, <<40, 30>>,
             TRUE, <<"1", "G", "0">>, FALSE, 0),
     SamLine("chr1", 16, 37, <<"2", "M">>, <<"T", "A">>, <<40, 30>>,
             TRUE, <<"1", "G", "0">>, FALSE, 0),
     SamLine("chr1", 0, 0, <<"2", "M">>, <<"T", "A">>, <<40, 40>>,
             TRUE, <<"0", "C", "1">>, FALSE, 0),
     SamLine("chr2", 0, 37, <<"2", "M">>, <<"T", "A">>, <<40, 40>>,
             TRUE, <<"0", "C", "1">>, FALSE, 0),
     SamLine("chr1", 0, 37, <<"2", "M">>, <<"T", "A">>, <<9>>,
             TRUE, <<"0", "C", "1">>, FALSE, 0),
     SamLine("chr1", 0, 37, <<"2", "M">>, <<"T", "A">>, <<40, 40>>,
             FALSE, <<>>, FALSE, 0),
     SamLine("chr1", 0, 37, <<"1", "H", "2", "M">>, <<"T", "A">>, <<40, 40>>,
             TRUE, <<"0", "C", "1">>, FALSE, 0),
     SamLine("chr1", 0, 37, <<"1", "S", "2", "M">>, <<"G", "T", "A">>, <<40, 40, 40>>,
             TRUE, <<"0", "C", "1">>, FALSE, 0),
     SamLine("chr1", 0, 37, <<"1", "M", "1", "I", "1", "M">>, <<"T", "A", "C">>,
             <<40, 40, 40>>, TRUE, <<"2">>, FALSE, 0),
     SamLine("chr1", 0, 37, <<"1", "M", "1", "D", "1", "M">>, <<"T", "A">>, <<40, 40>>,
             TRUE, <<"1", "^", "G", "1">>, FALSE, 0),
     SamLine("chr1", 0, 37, <<"2", "M">>, <<"T", "A">>, <<40, 40>>,
             TRUE, <<"0", "C", "1">>, TRUE, 3),
     SamLine("chr1", 0, 37, <<"2", "M">>, <<"N", "N">>, <<40, 40>>,
             TRUE, <<"2">>, FALSE, 0),
     SamLine("chr1", 0, 37, <<"2", "M">>, <<"T", "A">>, <<2, 40>>,
             TRUE, <<"0", "C", "1">>, FALSE, 0),
     SamLine("chr1", 0, 37, <<"3", "M">>, <<"T", "G", "A">>, <<40, 40, 40>>,
             TRUE, <<"0", "C", "1", "G", "0">>, FALSE, 0)}

\* the command lines of a run over the reconstruction universe
ReconCommandLines ==
    {Defaults,
     [Defaults EXCEPT !.printalignments = TRUE],
     [Defaults EXCEPT !.basic = 1],
     [Defaults EXCEPT !.stats = TRUE, !.upperthreshold = 3]}

(* The admission universe: the records of the stream universe that differ    *)
(* from the first in mapping quality or CIGAR alone, under the command lines  *)
(* that give a minimum mapping quality.                                       *)
AdmissionLines ==
    {l \in StreamLines : /\ l.chrom = "chr1" /\ l.flag = 0 /\ ~l.hasDS
                         /\ l.md = <<"0", "C", "1">>
                         /\ \A k \in 1..Len(l.qual) : l.qual[k] = <<"q", 40>>}

AdmissionCommandLines == {o \in CommandLines(MaxOptions) : o.mapq > 0}

(* The rescaling universe: the records of the stream universe that the       *)
(* default admission takes to the score, under the command lines that turn   *)
(* quality rescaling on.                                                      *)
RescalingLines ==
    {l \in StreamLines : /\ l.chrom = "chr1" /\ l.mapq > 0 /\ l.hasMD /\ ~l.hasDS
                         /\ Len(l.qual) >= MinQualLen /\ ~In("H", l.cigar)}

RescalingCommandLines ==
    {o \in CommandLines(MaxOptions) : o.adjustbaseq \/ o.adjustbaseq_all}

Lines(u) ==
    IF u = "reconstruction" THEN ReconLines
    ELSE IF u = "rescaling" THEN RescalingLines
    ELSE IF u = "admission" THEN AdmissionLines
    ELSE StreamLines

(* The state at line 248, before the first record: the command line is one   *)
(* of commandlines and standard input holds at most n records of Lines(u).    *)
Start(u, commandlines, n) ==
    /\ input = u /\ options \in commandlines /\ remaining = n
    /\ pc = "read" /\ error = "none" /\ line_counter = 0 /\ log = <<>>
    /\ col = NoLine /\ line = NoLine /\ read = <<>> /\ quals = <<>>
    /\ reverse = FALSE /\ DSfield = FALSE /\ LR = 0
    /\ alignment = <<>> /\ ref_seq = <<>> /\ newread = <<>> /\ MDcounter = 0
    /\ insertions = <<>> /\ softclips = <<>> /\ cigarcount = 0
    /\ real_read = <<>> /\ real_ref_seq = <<>> /\ mismatch_string = <<>>
    /\ L_D = <<>> /\ L_M = <<>> /\ L_bound = FALSE /\ L_line = 0
    /\ adjusted = {}
    /\ mismatch_dict = <<>> /\ mismatch_dict_rev = <<>>
    /\ noquals = 0 /\ indelexcluded = 0 /\ clipexcluded = 0 /\ noMD = 0
    /\ excluded_threshold = 0 /\ passed = 0
    /\ out = <<>> /\ err = <<>>

Init == Start("stream", CommandLines(MaxOptions), MaxLines)

\* the runs over the reconstruction universe: one record, reconstructed
InitReconstruction == Start("reconstruction", ReconCommandLines, 1)

\* the runs over the admission universe
InitAdmission == Start("admission", AdmissionCommandLines, MaxLines)

\* the alphabet of revcomp (lines 158-163)
Alphabet == {"A", "C", "G", "T", "N", "-"}

ArraysOf(n) == [1..n -> Alphabet]

(* The normalisation universe: the states at line 402 for a reverse-strand    *)
(* record, read and ref_seq being any two arrays of one length over the       *)
(* alphabet of revcomp.                                                       *)
InitNormalization ==
    /\ input = "normalization" /\ options = Defaults /\ remaining = 0
    /\ pc = "normalize" /\ error = "none" /\ line_counter = 1 /\ log = <<>>
    /\ \E n \in 1..MaxArrayLen :
          /\ read \in ArraysOf(n)
          /\ ref_seq \in ArraysOf(n)
          /\ col = SamLine("chr1", ReverseBit, 37, ToStr(n) \o <<"M">>, read,
                           [k \in 1..n |-> 40], TRUE, <<>>, FALSE, 0)
    /\ line = col /\ quals = col.qual
    /\ reverse = TRUE /\ DSfield = FALSE /\ LR = 0
    /\ alignment = <<>> /\ newread = read /\ MDcounter = Len(read)
    /\ insertions = <<>> /\ softclips = <<>> /\ cigarcount = 0
    /\ real_read = <<>> /\ real_ref_seq = <<>> /\ mismatch_string = <<>>
    /\ L_D = <<>> /\ L_M = <<>> /\ L_bound = FALSE /\ L_line = 0
    /\ adjusted = {}
    /\ mismatch_dict = <<>> /\ mismatch_dict_rev = <<>>
    /\ noquals = 0 /\ indelexcluded = 0 /\ clipexcluded = 0 /\ noMD = 0
    /\ excluded_threshold = 0 /\ passed = 0
    /\ out = <<>> /\ err = <<>>

\* the runs over the rescaling universe: one record, scored and rescaled
InitRescaling == Start("rescaling", RescalingCommandLines, 1)

\* ------------------------------------------------------------- admission
\* lines 303-310
Reverse(l) == (l.flag \div ReverseBit) % 2 = 1

(* An admission without the mapping-quality test of lines 296-297.            *)
AdmissionNoMapq(l) ==
    IF options.chromosome # "" /\ l.chrom # options.chromosome THEN "chromosome"
    ELSE IF Len(l.qual) < MinQualLen THEN "noquals"
    ELSE IF options.noinsertions /\ In("I", l.cigar) THEN "noinsertions"
    ELSE IF options.nodeletions /\ In("D", l.cigar) THEN "nodeletions"
    ELSE IF options.onlyinsertions /\ ~In("I", l.cigar) THEN "onlyinsertions"
    ELSE IF options.onlydeletions /\ ~In("D", l.cigar) THEN "onlydeletions"
    ELSE IF options.noindels /\ (In("I", l.cigar) \/ In("D", l.cigar)) THEN "noindels"
    ELSE IF options.noclips /\ (In("S", l.cigar) \/ In("H", l.cigar)
                                \/ In("N", l.cigar) \/ In("P", l.cigar)) THEN "noclips"
    ELSE IF options.onlyclips /\ ~In("S", l.cigar) THEN "onlyclips"
    ELSE IF In("H", l.cigar) \/ In("P", l.cigar) \/ In("N", l.cigar) THEN "unsupported"
    ELSE IF options.notreverse /\ Reverse(l) THEN "notreverse"
    ELSE "admit"

(* Lines 260-313: the first filter that ends the iteration of the record l,   *)
(* or "admit".  The second chromosome test of line 298 repeats line 260.      *)
Admission(l) ==
    IF options.chromosome # "" /\ l.chrom # options.chromosome THEN "chromosome"
    ELSE IF Len(l.qual) < MinQualLen THEN "noquals"
    ELSE IF options.noinsertions /\ In("I", l.cigar) THEN "noinsertions"
    ELSE IF options.nodeletions /\ In("D", l.cigar) THEN "nodeletions"
    ELSE IF options.onlyinsertions /\ ~In("I", l.cigar) THEN "onlyinsertions"
    ELSE IF options.onlydeletions /\ ~In("D", l.cigar) THEN "onlydeletions"
    ELSE IF options.noindels /\ (In("I", l.cigar) \/ In("D", l.cigar)) THEN "noindels"
    ELSE IF options.noclips /\ (In("S", l.cigar) \/ In("H", l.cigar)
                                \/ In("N", l.cigar) \/ In("P", l.cigar)) THEN "noclips"
    ELSE IF options.onlyclips /\ ~In("S", l.cigar) THEN "onlyclips"
    ELSE IF In("H", l.cigar) \/ In("P", l.cigar) \/ In("N", l.cigar) THEN "unsupported"
    ELSE IF l.mapq < options.mapq THEN "mapq"
    ELSE IF options.notreverse /\ Reverse(l) THEN "notreverse"
    ELSE "admit"

(* The locals that every iteration assigns before it uses them are cleared    *)
(* when an iteration ends; L_D and L_M are not among them (lines 625, 641).   *)
ClearRecord ==
    /\ col' = NoLine /\ line' = NoLine /\ read' = <<>> /\ quals' = <<>>
    /\ reverse' = FALSE /\ DSfield' = FALSE /\ LR' = 0
    /\ alignment' = <<>> /\ ref_seq' = <<>> /\ newread' = <<>> /\ MDcounter' = 0
    /\ insertions' = <<>> /\ softclips' = <<>> /\ cigarcount' = 0
    /\ real_read' = <<>> /\ real_ref_seq' = <<>> /\ mismatch_string' = <<>>
    /\ adjusted' = {}

\* continue
Continue(how) ==
    /\ pc' = "read" /\ error' = error /\ log' = Append(log, how)
    /\ ClearRecord

\* an exception that nothing catches
Raise(how, exception) ==
    /\ pc' = "aborted" /\ error' = exception /\ log' = Append(log, how)

\* lines 248-328: the next record, the filters, the strand, the DS:Z: tag
ReadLine ==
    /\ pc = "read"
    /\ remaining > 0
    /\ \E l \in Lines(input) :
        LET how == Admission(l)
        IN  /\ line_counter' = line_counter + 1
            /\ remaining' = remaining - 1
            /\ noquals' = IF how = "noquals" THEN noquals + 1 ELSE noquals
            /\ indelexcluded' = IF how = "noindels" THEN indelexcluded + 1
                                ELSE indelexcluded
            /\ clipexcluded' = IF how = "noclips" THEN clipexcluded + 1
                               ELSE clipexcluded
            /\ IF how = "admit"
               THEN /\ col' = l /\ line' = l /\ read' = l.seq /\ quals' = l.qual
                    /\ reverse' = Reverse(l)
                    /\ DSfield' = l.hasDS
                    /\ LR' = IF l.hasDS THEN l.ds ELSE 0
                    /\ pc' = IF ReconstructCond(l.hasDS) THEN "mddecode" ELSE "output"
                    /\ UNCHANGED <<error, log, rcn, nrm, adjusted>>
               ELSE IF how = "unsupported"
               THEN /\ Raise(how, "NameError: prin")
                    /\ UNCHANGED <<rec, rcn, nrm, adjusted>>
               ELSE Continue(how)
    /\ UNCHANGED <<env, lik, acc, noMD, excluded_threshold, passed, io>>

\* ---------------------------------------------------------- reconstruction
\* lines 330-361: the MD tag and its decode
MDDecode ==
    /\ pc = "mddecode"
    /\ IF ~line.hasMD
       THEN /\ noMD' = noMD + 1
            /\ Continue("noMD")
       ELSE LET st == MDdecode(line.md, col.seq)
            IN  /\ noMD' = noMD
                /\ read' = col.seq
                /\ alignment' = st.alignment
                /\ ref_seq' = st.ref_seq
                /\ newread' = st.newread
                /\ MDcounter' = st.MDcounter
                /\ IF st.error # "none"
                   THEN Raise("mddecode", st.error)
                   ELSE /\ pc' = IF In("I", col.cigar) \/ In("S", col.cigar)
                                 THEN "cigardecode" ELSE "normalize"
                        /\ UNCHANGED <<error, log>>
                /\ UNCHANGED <<col, line, quals, reverse, DSfield, LR,
                               insertions, softclips, cigarcount, nrm, adjusted>>
    /\ UNCHANGED <<env, line_counter, remaining, lik, acc,
                   noquals, indelexcluded, clipexcluded, excluded_threshold, passed, io>>

\* lines 363-380: the insertions and soft clips of the CIGAR
CigarDecodeStep ==
    /\ pc = "cigardecode"
    /\ LET st == CigarDecode(col.cigar)
       IN  /\ insertions' = st.insertions
           /\ softclips' = st.softclips
           /\ cigarcount' = st.cigarcount
           /\ IF st.error # "none"
              THEN Raise("cigardecode", st.error)
              ELSE pc' = "merge" /\ UNCHANGED <<error, log>>
    /\ UNCHANGED <<env, line_counter, remaining, rec, alignment, ref_seq, newread,
                   MDcounter, nrm, lik, adjusted, acc, cnt, io>>

(* Lines 382-400.  ref_seq and newread are emptied, and the loop header of    *)
(* line 386 names xrange, which Python 3 does not define: NameError, before   *)
(* the first pass of the loop.                                                *)
Merge ==
    /\ pc = "merge"
    /\ ref_seq' = <<>>
    /\ newread' = <<>>
    /\ Raise("merge", "NameError: xrange")
    /\ UNCHANGED <<env, line_counter, remaining, rec, alignment, MDcounter,
                   insertions, softclips, cigarcount, nrm, lik, adjusted, acc, cnt, io>>

\* lines 402-407: the strand normalisation
Normalize ==
    /\ pc = "normalize"
    /\ read' = IF reverse THEN revcomp(read) ELSE read
    /\ ref_seq' = IF reverse THEN revcomp(ref_seq) ELSE ref_seq
    /\ quals' = IF reverse THEN Reversed(quals) ELSE quals
    /\ real_read' = read'
    /\ real_ref_seq' = ref_seq'
    /\ pc' = IF options.basic > 0 THEN "basic"
             ELSE IF IdentityCond THEN "identity"
             ELSE IF ScoreCond(DSfield) THEN "score"
             ELSE "output"
    /\ UNCHANGED <<env, error, line_counter, remaining, log, col, line, reverse,
                   DSfield, LR, alignment, newread, MDcounter, insertions, softclips,
                   cigarcount, mismatch_string, lik, adjusted, acc, cnt, io>>

\* ------------------------------------------------------------ the filters
\* len(real_read) - len(real_read.lstrip('-'))
StartPosition == Len(real_read) - Len(Lstrip(real_read, "-"))

ZipLen == Min(Len(real_read), Len(real_ref_seq))

\* lines 416-426 from coordinate x on: whether the SAM line is printed
RECURSIVE BasicScan(_)
BasicScan(x) ==
    IF x >= ZipLen THEN FALSE
    ELSE LET a == real_read[x + 1]
             b == real_ref_seq[x + 1]
             i == x - StartPosition
         IN  IF a = "N" \/ b = "N" THEN BasicScan(x + 1)
             ELSE IF i >= Len(col.seq) THEN FALSE
             ELSE IF i > options.basic THEN FALSE
             ELSE IF b = "C" /\ a = "T" /\ Phred(quals[i + 1]) > options.baseq THEN TRUE
             ELSE BasicScan(x + 1)

\* lines 414-428: the basic filter ends the iteration of every record
BasicFilter ==
    /\ pc = "basic"
    /\ out' = IF BasicScan(0) THEN Append(out, <<"line", line_counter, line>>) ELSE out
    /\ Continue("basic")
    /\ UNCHANGED <<env, line_counter, remaining, lik, acc, cnt, err>>

\* lines 438-452 from coordinate x on
RECURSIVE DivergenceScan(_, _)
DivergenceScan(x, st) ==
    IF x >= ZipLen THEN st
    ELSE LET a == real_read[x + 1]
             b == real_ref_seq[x + 1]
         IN  IF a = "-" \/ b = "-"
             THEN DivergenceScan(x + 1,
                     [st EXCEPT !.mismatch_string = Append(@, "-")])
             ELSE IF a = "N" \/ b = "N" THEN DivergenceScan(x + 1, st)
             ELSE IF a = b
             THEN DivergenceScan(x + 1,
                     [st EXCEPT !.mismatch_string = Append(@, "|"), !.match = @ + 1])
             ELSE IF (b = "C" /\ a = "T") \/ (b = "G" /\ a = "A")
             THEN DivergenceScan(x + 1,
                     [st EXCEPT !.mismatch_string = Append(@, "x")])
             ELSE DivergenceScan(x + 1,
                     [st EXCEPT !.mismatch_string = Append(@, "x"), !.mismatch = @ + 1])

Divergence ==
    DivergenceScan(0, [match |-> 0, mismatch |-> 0, mismatch_string |-> <<>>])

\* lines 431-458: the divergence filter; options.perc_identity is in percent
IdentityFilter ==
    /\ pc = "identity"
    /\ LET d == Divergence
       IN  IF d.match + d.mismatch = 0
           THEN Continue("ZeroDivisionError")
           ELSE IF 100 * d.match < options.perc_identity * (d.match + d.mismatch)
           THEN Continue("perc_identity")
           ELSE /\ mismatch_string' = d.mismatch_string
                /\ pc' = IF ScoreCond(DSfield) THEN "score" ELSE "output"
                /\ UNCHANGED <<error, log, rec, rcn, real_read, real_ref_seq, adjusted>>
    /\ UNCHANGED <<env, line_counter, remaining, lik, acc, cnt, io>>

\* ---------------------------------------------------------- the score loop
ScoreStart ==
    [L_D |-> <<>>, L_M |-> <<>>, quals |-> quals, newquals |-> quals,
     mismatch_dict |-> mismatch_dict, mismatch_dict_rev |-> mismatch_dict_rev,
     adjusted |-> {}, stop |-> "none"]

Break(st) == [st EXCEPT !.stop = "break"]

\* lines 494-495, 516-517, 551-552: "break", "continue" or "go"
CpGofC(i) ==
    IF i + 1 >= Len(col.seq) THEN "break"
    ELSE IF real_read[i + 2] # "G" THEN "continue"
    ELSE "go"

\* lines 504-505, 577-578: "break", "continue" or "go"
CpGofG(i) ==
    IF i + 1 >= Len(col.seq) THEN "break"
    ELSE IF Reversed(real_read)[i + 2] # "C" THEN "continue"
    ELSE "go"

\* lines 489-511: a base quality below options.baseq
LowQuality(st, a, b, i, z) ==
    IF ~options.adjustbaseq THEN st
    ELSE IF b = "C" /\ a = "T" THEN
        LET ctx == IF options.cpg THEN CpGofC(i) ELSE "go"
            newqual == Newbaseq(i, st.quals)
        IN  IF ctx = "break" THEN Break(st)
            ELSE IF ctx = "continue" THEN st
            ELSE [st EXCEPT !.newquals = SetQual(st.quals, i, newqual),
                            !.adjusted = @ \cup {<<i, newqual>>}]
    ELSE IF b = "G" /\ a = "A" THEN
        LET ctx == IF options.cpg THEN CpGofG(i) ELSE "go"
            newqual == Newbaseq(z, Reversed(st.quals))
        IN  IF ctx = "break" THEN Break(st)
            ELSE IF ctx = "continue" THEN st
            ELSE [st EXCEPT !.newquals = SetQual(st.quals, i, newqual),
                            !.adjusted = @ \cup {<<i, newqual>>}]
    ELSE st

(* Lines 513-541: the deamination counts.  Line 531 compares the list [z+1]   *)
(* with an integer, a TypeError in Python 3.                                  *)
Deamination(st, a, b, i, z) ==
    IF b = "C" THEN
        LET ctx == IF options.cpg THEN CpGofC(i) ELSE "go"
        IN  IF ctx = "break" THEN Break(st)
            ELSE IF ctx = "continue" THEN st
            ELSE [st EXCEPT !.mismatch_dict = Bump(@, <<b, a, i>>)]
    ELSE IF b = "G" THEN
        IF options.cpg
        THEN IF i + 1 >= Len(col.seq) THEN Break(st)
             ELSE [st EXCEPT !.stop = "TypeError"]
        ELSE [st EXCEPT !.mismatch_dict_rev = Bump(@, <<b, a, z>>)]
    ELSE st

\* lines 547-596: the factors of the two likelihoods
Degradation(st, a, b, i, z) ==
    IF b = "C" THEN
        LET ctx == IF options.cpg THEN CpGofC(i) ELSE "go"
            newqual == Newbaseq(i, st.quals)
        IN  IF ctx = "break" THEN Break(st)
            ELSE IF ctx = "continue" THEN st
            ELSE IF a = "T" THEN
                [st EXCEPT
                    !.L_D = Append(@, L_mismatch(i, "ancient", st.quals)),
                    !.L_M = Append(@, L_mismatch(i, "modern", st.quals)),
                    !.quals = IF options.adjustbaseq
                              THEN SetQual(st.quals, i, newqual) ELSE @,
                    !.adjusted = IF options.adjustbaseq
                                 THEN @ \cup {<<i, newqual>>} ELSE @]
            ELSE IF a = "C" THEN
                [st EXCEPT !.L_D = Append(@, L_match(i, "ancient", st.quals)),
                           !.L_M = Append(@, L_match(i, "modern", st.quals))]
            ELSE st
    ELSE IF b = "G" THEN
        LET ctx == IF options.cpg THEN CpGofG(i) ELSE "go"
            qualsrev == Reversed(st.quals)
            newqual == Newbaseq(z, qualsrev)
        IN  IF ctx = "break" THEN Break(st)
            ELSE IF ctx = "continue" THEN st
            ELSE IF a = "A" THEN
                [st EXCEPT
                    !.L_D = Append(@, L_mismatch(z, "ancient", qualsrev)),
                    !.L_M = Append(@, L_mismatch(z, "modern", qualsrev)),
                    !.newquals = IF options.adjustbaseq
                                 THEN SetQual(st.quals, i, newqual) ELSE @,
                    !.adjusted = IF options.adjustbaseq
                                 THEN @ \cup {<<i, newqual>>} ELSE @]
            ELSE IF a = "G" THEN
                [st EXCEPT !.L_D = Append(@, L_match(z, "ancient", qualsrev)),
                           !.L_M = Append(@, L_match(z, "modern", qualsrev))]
            ELSE st
    ELSE st

\* lines 476-596: the pass of the loop for coordinate x
ScoreBase(st, x) ==
    LET a == real_read[x + 1]
        b == real_ref_seq[x + 1]
        i == x
        z == (Len(real_read) - 1) - x
        newqual == NewqualAll(i, z, st.quals)
        st1 == IF options.adjustbaseq_all
               THEN [st EXCEPT !.newquals = SetQual(st.quals, i, newqual),
                               !.adjusted = @ \cup {<<i, newqual>>}]
               ELSE st
    IN  IF a = "N" \/ b = "N" THEN st
        ELSE IF i >= Len(col.seq) THEN Break(st)
        ELSE IF Phred(st.quals[i + 1]) < options.baseq THEN LowQuality(st1, a, b, i, z)
        ELSE IF options.deamination THEN Deamination(st1, a, b, i, z)
        ELSE Degradation(st1, a, b, i, z)

RECURSIVE ScoreLoop(_, _)
ScoreLoop(st, x) ==
    IF x >= ZipLen \/ st.stop # "none" THEN st
    ELSE ScoreLoop(ScoreBase(st, x), x + 1)

\* lines 468-599: the PMD score computations
Score ==
    /\ pc = "score"
    /\ LET st == ScoreLoop(ScoreStart, 0)
       IN  /\ L_D' = st.L_D
           /\ L_M' = st.L_M
           /\ L_bound' = TRUE
           /\ L_line' = line_counter
           /\ mismatch_dict' = st.mismatch_dict
           /\ mismatch_dict_rev' = st.mismatch_dict_rev
           /\ adjusted' = st.adjusted
           /\ IF st.stop \notin {"none", "break"}
              THEN /\ Raise("score", st.stop)
                   /\ quals' = st.quals
                   /\ LR' = LR
              ELSE /\ LR' = LogRatio(st.L_D, st.L_M)
                   /\ quals' = st.newquals
                   /\ pc' = "output"
                   /\ UNCHANGED <<error, log>>
    /\ UNCHANGED <<env, line_counter, remaining, col, line, read, reverse, DSfield,
                   rcn, nrm, cnt, io>>

\* ----------------------------------------------------------------- output
\* lines 601-622: the SAM line with the rescaled qualities and the DS:Z: tag
OutputLine ==
    LET qualsp == IF reverse THEN Reversed(quals) ELSE quals
        requal == IF options.adjustbaseq THEN [line EXCEPT !.qual = qualsp] ELSE line
    IN  IF options.writesamfield = TRUE
        THEN [requal EXCEPT !.hasDS = TRUE, !.ds = LR]
        ELSE requal

\* line 633
InInterval(score) == score >= options.threshold /\ score < options.upperthreshold

\* line 643: LR < options.threshold or LR > options.upperthreshold < (1000000)
AlignmentExcluded(score) ==
    \/ score < options.threshold
    \/ (score > options.upperthreshold /\ options.upperthreshold < UpperThresholdOn)

\* lines 627-634: the SAM line is printed (the run not having ended at line 625)
PrintsSamLine == options.dry \/ (ThresholdGiven /\ InInterval(LR))

(* Lines 638-644: how the printing of the alignment goes: "off", "continue"   *)
(* (the except clause of line 642, the filter of line 643) or "print".  The   *)
(* score of line 641 is that of the L_D and L_M at hand.                      *)
AlignmentPrinting ==
    IF options.dry \/ ~options.printalignments THEN "off"
    ELSE IF ThresholdGiven /\ ~L_bound THEN "continue"
    ELSE IF ThresholdGiven /\ AlignmentExcluded(LogRatio(L_D, L_M)) THEN "continue"
    ELSE "print"

PrintsAlignment == AlignmentPrinting = "print"

\* lines 601-667: what is printed for the record, and the count of line 666
Output ==
    /\ pc = "output"
    /\ LET samline == <<"line", line_counter, OutputLine>>
           printed == <<"alignment", line_counter, real_read, mismatch_string,
                        real_ref_seq, quals>>
           scores == IF options.printDS
                     THEN <<<<"scores", line_counter, L_D, L_M, LR>>>> ELSE <<>>
       IN  IF options.printDS /\ ~L_bound
           THEN /\ Raise("printDS", "UnboundLocalError: L_D")
                /\ UNCHANGED <<rec, rcn, nrm, adjusted, out, excluded_threshold, passed>>
           ELSE /\ out' = out \o scores
                          \o (IF PrintsSamLine THEN <<samline>> ELSE <<>>)
                          \o (IF PrintsAlignment THEN <<printed>> ELSE <<>>)
                /\ excluded_threshold' =
                      IF ~options.dry /\ ThresholdGiven /\ ~InInterval(LR)
                      THEN excluded_threshold + 1 ELSE excluded_threshold
                /\ IF options.dry THEN Continue("dry") /\ UNCHANGED passed
                   ELSE IF AlignmentPrinting = "continue"
                   THEN Continue("alignment") /\ UNCHANGED passed
                   ELSE /\ passed' = passed + 1
                        /\ error' = error
                        /\ log' = Append(log, "passed")
                        /\ pc' = IF passed + 1 >= options.maxreads
                                 THEN "finish" ELSE "read"
                        /\ ClearRecord
    /\ UNCHANGED <<env, line_counter, remaining, lik, acc,
                   noquals, indelexcluded, clipexcluded, noMD, err>>

\* the end of standard input ends the loop of line 248
EndOfInput ==
    /\ pc = "read"
    /\ pc' = "finish"
    /\ UNCHANGED <<env, error, line_counter, remaining, log, rec, rcn, nrm, lik,
                   adjusted, acc, cnt, io>>

\* lines 671-689: the counts that the summary reports
Summary ==
    [clipexcluded |-> clipexcluded, indelexcluded |-> indelexcluded, noMD |-> noMD,
     noGCexcluded |-> 0, passed |-> passed, threshold |-> options.threshold,
     excluded_threshold |-> excluded_threshold,
     passed_seqs |-> passed - excluded_threshold]

\* lines 670-734: the summary on stderr and the deamination table on stdout
Finish ==
    /\ pc = "finish"
    /\ err' = IF options.stats THEN Append(err, <<"stats", Summary>>) ELSE err
    /\ out' = IF options.deamination
              THEN Append(out, <<"deamination", mismatch_dict, mismatch_dict_rev>>)
              ELSE out
    /\ pc' = "done"
    /\ UNCHANGED <<env, error, line_counter, remaining, log, rec, rcn, nrm, lik,
                   adjusted, acc, cnt>>

Next ==
    \/ ReadLine
    \/ MDDecode
    \/ CigarDecodeStep
    \/ Merge
    \/ Normalize
    \/ BasicFilter
    \/ IdentityFilter
    \/ Score
    \/ Output
    \/ EndOfInput
    \/ Finish

Spec == Init /\ [][Next]_vars

SpecReconstruction == InitReconstruction /\ [][Next]_vars

SpecAdmission == InitAdmission /\ [][Next]_vars

SpecRescaling == InitRescaling /\ [][Next]_vars

\* the strand normalisation alone, over the normalisation universe
SpecNormalization == InitNormalization /\ [][Normalize]_vars

\* ----------------------------------------------------------------- claims
Last(sq) == sq[Len(sq)]

Count(how) == Cardinality({k \in 1..Len(log) : log[k] = how})

\* the record at hand is in, or has been through, its reconstruction
Reconstructing == pc \in {"mddecode", "cigardecode", "merge", "normalize"}

ReconstructionFailed ==
    pc = "aborted" /\ Last(log) \in {"mddecode", "cigardecode", "merge"}

(* The alignment trace that section 4.2 of the specification describes: a     *)
(* digit run gives that many exact matches, a deletion run nothing, any other *)
(* letter run its reference bases.                                            *)
RECURSIVE TraceOf(_, _)
TraceOf(MDlist, k) ==
    IF k > Len(MDlist) THEN <<>>
    ELSE (IF AllDigits(MDlist[k]) THEN Dots(ToInt(MDlist[k]))
          ELSE IF In("^", MDlist[k]) THEN <<>>
          ELSE MDlist[k]) \o TraceOf(MDlist, k + 1)

(* The read coordinates that the operations op of a CIGAR cover, as section   *)
(* 4.1 describes them: M, I and S advance the read cursor, D does not.        *)
RECURSIVE CoveredBy(_, _, _, _)
CoveredBy(components, k, cursor, op) ==
    IF k > Len(components) THEN <<>>
    ELSE LET n == ToInt(components[k][1])
             consumes == components[k][2] \in {"M", "I", "S"}
         IN  (IF components[k][2] = op THEN Range(cursor, cursor + n) ELSE <<>>)
             \o CoveredBy(components, k + 1, IF consumes THEN cursor + n ELSE cursor, op)

Elements(sq) == {sq[k] : k \in 1..Len(sq)}

(* C1: every record that is admitted to the reconstruction is reconstructed,  *)
(* and the reconstructed read and ref have equal length, read holds no gap,   *)
(* and ref holds a gap only at an insertion or soft-clip coordinate of the    *)
(* CIGAR decode.                                                              *)
C1_ReconstructedArrays ==
    /\ ~ReconstructionFailed
    /\ pc = "normalize" =>
          /\ Len(ref_seq) = Len(read)
          /\ ~In("-", read)
          /\ \A x \in 0..(Len(ref_seq) - 1) :
                ref_seq[x + 1] = "-" => x \in Elements(insertions) \cup Elements(softclips)

(* C2: for a record with a deletion and an insertion or soft clip, the MD     *)
(* decode puts nothing of the deletion run into the alignment trace and does  *)
(* not advance the read cursor over it: the trace is that of the match        *)
(* region, one entry for each read coordinate of it.                          *)
C2_DeletionEmitsNothing ==
    (pc = "cigardecode" /\ In("D", col.cigar)) =>
        /\ alignment = TraceOf(MDfindall(line.md), 1)
        /\ MDcounter = Len(alignment)
        /\ Len(alignment) = Len(CoveredBy(cigarparser(col.cigar), 1, 0, "M"))

(* C3: after the CIGAR decode the coordinates classified as inserted and as   *)
(* soft-clipped are those that the I and the S operations cover in the read,  *)
(* the cursor advancing by M, I and S only.                                   *)
C3_CursorSkipsDeletions ==
    pc = "merge" =>
        /\ insertions = CoveredBy(cigarparser(col.cigar), 1, 0, "I")
        /\ softclips = CoveredBy(cigarparser(col.cigar), 1, 0, "S")

(* C4: for a record without insertion and soft clip whose MD holds digit runs *)
(* and substituted bases that cover the read, the reconstruction gives the    *)
(* input sequence as read, and as ref the read base at each exact-match       *)
(* coordinate and the base that MD states at each substituted coordinate.     *)
C4_Applies ==
    /\ pc = "normalize"
    /\ ~In("I", col.cigar) /\ ~In("S", col.cigar)
    /\ ~In("^", line.md)
    /\ Len(TraceOf(MDfindall(line.md), 1)) = Len(col.seq)

C4_MatchRegionReference ==
    C4_Applies =>
        LET trace == TraceOf(MDfindall(line.md), 1)
        IN  /\ read = col.seq
            /\ Len(ref_seq) = Len(col.seq)
            /\ \A x \in 0..(Len(col.seq) - 1) :
                  ref_seq[x + 1] = IF trace[x + 1] = "." THEN col.seq[x + 1]
                                   ELSE trace[x + 1]

\* C4's case: a substitution between two exact matches has been reconstructed
C4_Witness ==
    /\ C4_Applies
    /\ Len(col.seq) = 3
    /\ TraceOf(MDfindall(line.md), 1)[1] = "."
    /\ TraceOf(MDfindall(line.md), 1)[2] # "."
    /\ ref_seq[2] # read[2]
    /\ ref_seq[3] = read[3]

(* C5: a record whose CIGAR holds H, N or P is rejected with a diagnostic on  *)
(* stderr and skipped, and the run goes on with the records after it.         *)
C5_UnsupportedSkipped ==
    \A k \in 1..Len(log) : log[k] = "unsupported" =>
        /\ pc # "aborted"
        /\ \E d \in 1..Len(err) : err[d][1] = "cigar found:"

(* C6: in every output mode, no more records are taken to the output stage    *)
(* than options.maxreads: once that many have been, no further record is read *)
(* or printed.                                                                *)
C6_LimitStops ==
    Count("passed") + Count("dry") + Count("basic") + Count("alignment")
        <= options.maxreads

(* C7: with a score threshold given (and no dry pass-through), the record at  *)
(* the output stage is printed, as SAM line or as alignment, only if          *)
(* threshold <= score < upperthreshold.                                       *)
C7_ClosedOpenInterval ==
    (pc = "output" /\ ThresholdGiven /\ ~options.dry /\ ~(options.printDS /\ ~L_bound)) =>
        /\ PrintsSamLine => (options.threshold <= LR /\ LR < options.upperthreshold)
        /\ PrintsAlignment => (options.threshold <= LR /\ LR < options.upperthreshold)

\* the coordinate of the normalised read that position p of the input line holds
Normalised(p) == IF reverse THEN (Len(col.qual) - 1) - p ELSE p

(* C8: with quality rescaling on, the quality field of the SAM line that is   *)
(* printed has the length of the input quality string and holds, in the       *)
(* orientation of the input, an adjusted quality at every position for which  *)
(* one was computed and the input quality at every other position.            *)
C8_RescaledQualityField ==
    (/\ pc = "output"
     /\ options.adjustbaseq \/ options.adjustbaseq_all
     /\ ~(options.printDS /\ ~L_bound)
     /\ PrintsSamLine) =>
        /\ Len(OutputLine.qual) = Len(col.qual)
        /\ \A p \in 0..(Len(col.qual) - 1) :
              LET computed == {a[2] : a \in {b \in adjusted : b[1] = Normalised(p)}}
              IN  IF computed = {} THEN OutputLine.qual[p + 1] = col.qual[p + 1]
                  ELSE OutputLine.qual[p + 1] \in computed

\* the count that the run summary is to report for each recoverable skip
SkipCounter ==
    [noMD |-> "noMD", noquals |-> "noquals", unsupported |-> "unsupported",
     ZeroDivisionError |-> "undefined_identity"]

(* C9: each recoverable skip (no MD tag, quality string shorter than 2,       *)
(* unsupported CIGAR operation, undefined percent identity) is counted, and   *)
(* the run summary, when asked for, reports the count of each.                *)
C9_SkipsReported ==
    (pc = "done" /\ options.stats) =>
        \A how \in {h \in DOMAIN SkipCounter : Count(h) > 0} :
            /\ SkipCounter[how] \in DOMAIN Last(err)[2]
            /\ Last(err)[2][SkipCounter[how]] = Count(how)

(* C10: the reconstruction from MD and CIGAR is not executed for a record     *)
(* whose mapping quality is below options.mapq.                               *)
C10_MapqBeforeReconstruction ==
    (Reconstructing \/ ReconstructionFailed) => col.mapq >= options.mapq

\* C10's case: a record below the minimum has been read and skipped, and
\* another record is under reconstruction
C10_Witness ==
    /\ options.mapq > 0
    /\ Count("mapq") > 0
    /\ Reconstructing

\* the SAM lines printed on stdout, in the order of their printing
IsSamLine(e) == e[1] = "line"

SamLinesPrinted == SelectSeq(out, IsSamLine)

(* C11: with options.dry the input is printed without any filter: every       *)
(* record read so far has been printed as a SAM line, in the order of the     *)
(* input, whatever its chromosome, mapping quality, CIGAR, strand or MD tag.  *)
C11_DryPrintsEveryRecord ==
    options.dry =>
        /\ \A k \in 1..Len(log) : log[k] = "dry"
        /\ Len(SamLinesPrinted) = Len(log)
        /\ \A k \in 1..Len(SamLinesPrinted) : SamLinesPrinted[k][2] = k

RoundTrip(s) == revcomp(revcomp(s)) = s /\ Len(revcomp(s)) = Len(s)

(* C12: reverse-complementing twice is the identity and keeps the length, for *)
(* every array over {A,C,G,T,N,gap}: each array of the state is its own       *)
(* double reverse complement, and the reverse complement of the normalised    *)
(* read of a reverse-strand record is the sequence of the input record.       *)
C12_RevcompInvolution ==
    /\ \A s \in {read, ref_seq, real_read, real_ref_seq} : RoundTrip(s)
    /\ (input = "normalization" /\ pc # "normalize") =>
          /\ revcomp(real_read) = col.seq
          /\ Len(real_read) = Len(col.seq)
          /\ Len(real_ref_seq) = Len(col.seq)

(* C12's case: a reverse-strand read that is not its own reverse complement,  *)
(* with N in the read and a gap in ref, has been normalised.                  *)
C12_Witness ==
    /\ input = "normalization" /\ pc # "normalize" /\ reverse
    /\ real_read # col.seq
    /\ In("N", real_read)
    /\ In("-", real_ref_seq)
    /\ real_ref_seq # Reversed(real_ref_seq)

(* C13: the four values printed for a record with options.printDS (L_D, L_M, *)
(* their ratio, the score) are those of that record alone: the L_D and L_M at *)
(* the output stage have been computed, and from the record at hand, a DS:Z:  *)
(* tag on the record making no difference.                                    *)
C13_ScoresOfTheRecord ==
    (pc = "output" /\ options.printDS) =>
        /\ L_bound
        /\ L_line = line_counter
        /\ LR = LogRatio(L_D, L_M)

\* the input quality of coordinate x of the normalised read
InputQual(x) == IF reverse THEN Reversed(col.qual)[x + 1] ELSE col.qual[x + 1]

(* The input qualities that a factor of position p may be of: that of         *)
(* coordinate p if ref holds C there (lines 554-573), and that of the         *)
(* coordinate at distance p from the end if ref holds G there (580-593).      *)
QualsOfFactor(p) ==
    {InputQual(x) : x \in {y \in {p, (Len(real_read) - 1) - p} :
        /\ y \in 0..(Len(real_read) - 1)
        /\ \/ (y = p /\ real_ref_seq[y + 1] = "C")
           \/ (y = (Len(real_read) - 1) - p /\ real_ref_seq[y + 1] = "G")}}

\* the coordinates that contribute a factor when no rescaling is done
Contributing ==
    {x \in 0..(ZipLen - 1) :
        /\ real_read[x + 1] # "N" /\ real_ref_seq[x + 1] # "N"
        /\ Phred(InputQual(x)) >= options.baseq
        /\ \/ (real_ref_seq[x + 1] = "C" /\ real_read[x + 1] \in {"T", "C"})
           \/ (real_ref_seq[x + 1] = "G" /\ real_read[x + 1] \in {"A", "G"})}

\* the record at hand has been scored with quality rescaling on
C14_Applies ==
    /\ pc = "output" /\ L_line = line_counter
    /\ options.adjustbaseq \/ options.adjustbaseq_all

(* C14: with quality rescaling on, every factor of L_D and of L_M is computed *)
(* from the input quality of its position, never from a rescaled one, and     *)
(* the positions that contribute are those that contribute without            *)
(* rescaling; the score is that of these factors.                             *)
C14_ScoreOverInputQualities ==
    C14_Applies =>
        /\ \A L \in {L_D, L_M} : \A k \in 1..Len(L) : L[k][4] \in QualsOfFactor(L[k][3])
        /\ Len(L_D) = Len(L_M)
        /\ (~options.cpg /\ ~options.deamination) => Len(L_D) = Cardinality(Contributing)
        /\ LR = LogRatio(L_D, L_M)

(* C14's case: the quality of a C>T position has been rescaled in place and   *)
(* factors of later positions have been computed after it.                    *)
C14_Witness ==
    /\ C14_Applies
    /\ options.adjustbaseq
    /\ \E a \in adjusted : a[1] = 0
    /\ Len(L_D) >= 3

(* The coordinates that contribute under the CpG restriction as section 4.4  *)
(* of the specification states it: a reference C whose next read base is G,   *)
(* a reference G whose preceding read base is C.                              *)
CpGContributing ==
    {x \in Contributing :
        /\ real_ref_seq[x + 1] = "C" => (x + 1 < Len(real_read) /\ real_read[x + 2] = "G")
        /\ real_ref_seq[x + 1] = "G" => (x >= 1 /\ real_read[x] = "C")}

\* the factors of the damage likelihood that these coordinates give, from x on
RECURSIVE CpGFactors(_)
CpGFactors(x) ==
    IF x >= ZipLen THEN <<>>
    ELSE (IF x \notin CpGContributing THEN <<>>
          ELSE <<<<IF real_read[x + 1] = real_ref_seq[x + 1] THEN "match" ELSE "mismatch",
                   "ancient",
                   IF real_ref_seq[x + 1] = "C" THEN x ELSE (Len(real_read) - 1) - x,
                   InputQual(x)>>>>)
         \o CpGFactors(x + 1)

(* C15: with options.cpg, a reference C contributes to the likelihoods iff    *)
(* the read base after it is G and a reference G iff the read base before it  *)
(* is C, and the deamination counts are taken under the same rule (they are   *)
(* taken, the score stage raising nothing).                                   *)
C15_CpGContext ==
    /\ (pc = "output" /\ L_line = line_counter /\ options.cpg /\ ~options.deamination)
          => L_D = CpGFactors(0)
    /\ options.cpg => ~(pc = "aborted" /\ Last(log) = "score")

====
